---- MODULE Spec2Model ----
(***************************************************************************)
(* Model of backend/import_to_market_data.py: process_csv_file (one CSV    *)
(* file into the market_data table, one commit per row) and main (the      *)
(* walk over the market directories).                                      *)
(***************************************************************************)
EXTENDS Integers, Sequences, FiniteSets, TLC

\* ----------------------------------------------------------------- bounds

\* Invocations of main() in one behaviour (the store outlives a run).
MaxRuns == 2
\* Store faults (connect failure, statement error, lost connection) the
\* environment may inject in one behaviour.
MaxFaults == 1
\* Number of *.csv files glob may find in a market directory.
MaxListing == 4
\* The same, where the files are drawn from the wider catalog.
MaxFileListing == 2

\* ------------------------------------------------------ numbers and cells

\* line 88: volume / 1000000
Million == 1000000
\* line 87: volume > 99999999
VolumeCeiling == 99999999

\* A non-negative decimal number in base-1,000,000 limbs:
\* value = mega * 10^6 + unit + micro * 10^-6, with 0 <= unit, micro < 10^6.
\* Python floats hold these exactly enough (at most 15 significant digits).
Num(n) == [mega |-> n \div Million, unit |-> n % Million, micro |-> 0]

NumGt(a, b) ==
    \/ a.mega > b.mega
    \/ a.mega = b.mega /\ a.unit > b.unit
    \/ a.mega = b.mega /\ a.unit = b.unit /\ a.micro > b.micro

\* a / 1000000 (the raw volumes of the model are whole numbers: a.micro = 0)
DivMillion(a) ==
    [mega |-> a.mega \div Million, unit |-> a.mega % Million, micro |-> a.unit]

\* One cell of the frame pandas read: a number, a text or NaN (empty cell).
NumCell(n) == [kind |-> "num", num |-> Num(n), text |-> ""]
TextCell(s) == [kind |-> "text", num |-> Num(0), text |-> s]
NaN == [kind |-> "nan", num |-> Num(0), text |-> ""]
\* the number mega * 1,000,000 + unit, for numbers beyond 2^31
LimbCell(mega, unit) ==
    [kind |-> "num", num |-> [mega |-> mega, unit |-> unit, micro |-> 0], text |-> ""]

\* float(x): the number of a numeric cell; raises ValueError on other text.
CanFloat(c) == c.kind = "num"
Float(c) == c.num

\* pd.to_datetime on the values of the model: a date, a date with a time of
\* day, the same date written with slashes; anything else does not parse.
DateTable ==
    ("2024-01-02" :> [day |-> 20240102, time |-> 0]) @@
    ("2024-01-03" :> [day |-> 20240103, time |-> 0]) @@
    ("2024-01-04" :> [day |-> 20240104, time |-> 0]) @@
    ("2024-01-05" :> [day |-> 20240105, time |-> 0]) @@
    ("2024/01/02" :> [day |-> 20240102, time |-> 0]) @@
    ("2024-01-02 09:30" :> [day |-> 20240102, time |-> 930]) @@
    ("2024-01-02 15:30" :> [day |-> 20240102, time |-> 1530])
CanParseDate(c) == c.kind = "text" /\ c.text \in DOMAIN DateTable
ToDatetime(c) == DateTable[c.text]

\* market_name.upper()
Upper(s) ==
    CASE s = "Crypto" -> "CRYPTO"
      [] s = "BIST" -> "BIST"
      [] s = "NASDAQ" -> "NASDAQ"
      [] s = "NYSE" -> "NYSE"

\* ------------------------------------------------------------ column names

\* A column name is a sequence of tokens; BOM stands for the character U+FEFF.
BOM == "BOM"
Name(s) == <<s>>
BomName(s) == <<BOM, s>>
Range(s) == {s[k] : k \in DOMAIN s}

\* mutant: the header is taken as read
StripBOMNothing(cols) == cols

\* lines 29-30
StripBOM(cols) ==
    IF Head(cols[1]) = BOM
    THEN <<SelectSeq(cols[1], LAMBDA t : t # BOM)>> \o Tail(cols)
    ELSE cols

\* df.rename(columns=map): a column the map names is renamed, others are kept
RenameCols(cols, map) ==
    [k \in DOMAIN cols |-> IF cols[k] \in DOMAIN map THEN map[cols[k]] ELSE cols[k]]

\* mutant: the raw close is taken also where an adjusted close is there
CloseColRaw(cols) == "KapanisFiyati"

\* line 35
CloseCol(cols) ==
    IF Name("DuzeltilmisKapanis") \in Range(cols)
    THEN "DuzeltilmisKapanis" ELSE "KapanisFiyati"

\* lines 36-44
MapA(close_col) ==
    (Name("HisseKodu") :> Name("Symbol")) @@
    (Name("Tarih") :> Name("Date")) @@
    (Name("AcilisFiyati") :> Name("Open")) @@
    (Name("EnYuksek") :> Name("High")) @@
    (Name("EnDusuk") :> Name("Low")) @@
    (Name(close_col) :> Name("Close")) @@
    (Name("Hacim") :> Name("Volume"))

\* mutant: Variant B takes the raw close
MapBRaw ==
    (Name("HGDG_HS_KODU") :> Name("Symbol")) @@
    (Name("Tarih") :> Name("Date")) @@
    (Name("AcilisFiyati") :> Name("Open")) @@
    (Name("EnYuksek") :> Name("High")) @@
    (Name("EnDusuk") :> Name("Low")) @@
    (Name("KapanisFiyati") :> Name("Close")) @@
    (Name("Hacim") :> Name("Volume"))

\* lines 47-55
MapB ==
    (Name("HGDG_HS_KODU") :> Name("Symbol")) @@
    (Name("Tarih") :> Name("Date")) @@
    (Name("AcilisFiyati") :> Name("Open")) @@
    (Name("EnYuksek") :> Name("High")) @@
    (Name("EnDusuk") :> Name("Low")) @@
    (Name("DuzeltilmisKapanis") :> Name("Close")) @@
    (Name("Hacim") :> Name("Volume"))

\* mutant: a third symbol column, 'Ticker', is taken for Variant B
StandardizeLoose(cols) ==
    IF Name("HisseKodu") \in Range(cols)
    THEN RenameCols(cols, MapA(CloseCol(cols)))
    ELSE IF Name("HGDG_HS_KODU") \in Range(cols) \/ Name("Ticker") \in Range(cols)
    THEN RenameCols(cols, (Name("Ticker") :> Name("Symbol")) @@ MapB)
    ELSE cols

\* lines 33-55: the column names after the format has been determined
Standardize(cols) ==
    IF Name("HisseKodu") \in Range(cols)
    THEN RenameCols(cols, MapA(CloseCol(cols)))
    ELSE IF Name("HGDG_HS_KODU") \in Range(cols)
    THEN RenameCols(cols, MapB)
    ELSE cols

\* line 58
required_cols == <<"Symbol", "Date", "Open", "High", "Low", "Close", "Volume">>

\* line 59
HasRequired(cols) == \A k \in DOMAIN required_cols : Name(required_cols[k]) \in Range(cols)

ColIndex(cols, c) == CHOOSE k \in DOMAIN cols : cols[k] = Name(c)

\* line 63, df[required_cols]: each row keeps its index label and the cells
\* of the required columns
SelectRequired(cols, rows) ==
    [k \in DOMAIN rows |->
        [index |-> k,
         cells |-> [c \in Range(required_cols) |-> rows[k][ColIndex(cols, c)]]]]

\* mutant: no dropna()
DropNaNothing(frame) == frame

\* line 63, .dropna(): a row with a NaN in any column is dropped
DropNa(frame) ==
    SelectSeq(frame, LAMBDA r : \A c \in DOMAIN r.cells : r.cells[c].kind # "nan")

\* lines 66-70: pd.to_datetime(df['Date']) raises when a value does not parse
DatesParse(frame) == \A k \in DOMAIN frame : CanParseDate(frame[k].cells["Date"])

\* mutant: AssetClass is the market label as given
AddFieldsAsGiven(frame, market_name, firstId) ==
    [k \in DOMAIN frame |->
        [index      |-> frame[k].index,
         Id         |-> firstId + k - 1,
         Symbol     |-> frame[k].cells["Symbol"],
         Timeframe  |-> "DAILY",
         Timestamp  |-> ToDatetime(frame[k].cells["Date"]),
         Open       |-> frame[k].cells["Open"],
         High       |-> frame[k].cells["High"],
         Low        |-> frame[k].cells["Low"],
         Close      |-> frame[k].cells["Close"],
         Volume     |-> frame[k].cells["Volume"],
         AssetClass |-> market_name]]

\* lines 67, 73-76: Date parsed, Id / Timeframe / Timestamp / AssetClass added;
\* the uuid4 values are the fresh numbers firstId, firstId + 1, ...
AddFields(frame, market_name, firstId) ==
    [k \in DOMAIN frame |->
        [index      |-> frame[k].index,
         Id         |-> firstId + k - 1,
         Symbol     |-> frame[k].cells["Symbol"],
         Timeframe  |-> "DAILY",
         Timestamp  |-> ToDatetime(frame[k].cells["Date"]),
         Open       |-> frame[k].cells["Open"],
         High       |-> frame[k].cells["High"],
         Low        |-> frame[k].cells["Low"],
         Close      |-> frame[k].cells["Close"],
         Volume     |-> frame[k].cells["Volume"],
         AssetClass |-> Upper(market_name)]]

\* mutant: the ceiling itself is rescaled (>= for >)
ScaleVolumeGe(v) == IF NumGt(v, Num(VolumeCeiling - 1)) THEN DivMillion(v) ELSE v

\* lines 86-88
ScaleVolume(v) == IF NumGt(v, Num(VolumeCeiling)) THEN DivMillion(v) ELSE v

\* lines 94-98: the parameters of the INSERT statement
InsertParams(row, volume) ==
    [Id         |-> row.Id,
     Symbol     |-> row.Symbol.text,
     Timeframe  |-> row.Timeframe,
     Timestamp  |-> row.Timestamp,
     Open       |-> Float(row.Open),
     High       |-> Float(row.High),
     Low        |-> Float(row.Low),
     Close      |-> Float(row.Close),
     Volume     |-> volume,
     AssetClass |-> row.AssetClass]

\* lines 96-97: the four float() calls of the parameter tuple succeed
ParamsCoerce(row) ==
    CanFloat(row.Open) /\ CanFloat(row.High) /\ CanFloat(row.Low) /\ CanFloat(row.Close)

\* mutant: the conflict target is the generated Id
KeyById(r) == <<r.Id>>

\* mutant: the conflict target is the Symbol alone
KeyBySymbol(r) == <<r.Symbol>>

\* mutant: the conflict target includes the generated Id
KeyWithId(r) == <<r.Id, r.Symbol, r.Timeframe, r.Timestamp>>

\* line 93: the conflict target
Key(r) == <<r.Symbol, r.Timeframe, r.Timestamp>>

\* mutant: a plain INSERT, no ON CONFLICT clause
InsertPlain(visible, rec) == {rec}

\* lines 90-93: INSERT ... ON CONFLICT ("Symbol", "Timeframe", "Timestamp")
\* DO NOTHING; the rows the statement adds, given the rows it can see
InsertOnConflictDoNothing(visible, rec) ==
    IF \E r \in visible : Key(r) = Key(rec) THEN {} ELSE {rec}

\* ------------------------------------------------------------- input files

HdrA ==
    <<Name("HisseKodu"), Name("Tarih"), Name("AcilisFiyati"), Name("EnYuksek"),
      Name("EnDusuk"), Name("KapanisFiyati"), Name("DuzeltilmisKapanis"), Name("Hacim")>>
HdrB ==
    <<Name("HGDG_HS_KODU"), Name("Tarih"), Name("AcilisFiyati"), Name("EnYuksek"),
      Name("EnDusuk"), Name("KapanisFiyati"), Name("DuzeltilmisKapanis"), Name("Hacim")>>
HdrCanon ==
    <<Name("Symbol"), Name("Date"), Name("Open"), Name("High"),
      Name("Low"), Name("Close"), Name("Volume")>>
HdrUnknown ==
    <<Name("Ticker"), Name("Tarih"), Name("AcilisFiyati"), Name("EnYuksek"),
      Name("EnDusuk"), Name("KapanisFiyati"), Name("DuzeltilmisKapanis"), Name("Hacim")>>

HdrARaw ==
    <<Name("HisseKodu"), Name("Tarih"), Name("AcilisFiyati"), Name("EnYuksek"),
      Name("EnDusuk"), Name("KapanisFiyati"), Name("Hacim")>>

\* Variant A, raw and adjusted close; row 2 has no adjusted close; the
\* volumes are 500,000,000 and the ceiling itself.
FileA ==
    [cols |-> HdrA,
     rows |-> <<
       <<TextCell("THYAO"), TextCell("2024-01-02"), NumCell(10), NumCell(12),
         NumCell(9), NumCell(11), NumCell(21), NumCell(500000000)>>,
       <<TextCell("THYAO"), TextCell("2024-01-03"), NumCell(10), NumCell(12),
         NumCell(9), NumCell(11), NaN, NumCell(700)>>,
       <<TextCell("THYAO"), TextCell("2024-01-04"), NumCell(13), NumCell(15),
         NumCell(12), NumCell(14), NumCell(24), NumCell(99999999)>> >>]

\* Variant B; row 1 has the natural key of FileA's row 1 with other values.
FileB ==
    [cols |-> HdrB,
     rows |-> <<
       <<TextCell("THYAO"), TextCell("2024-01-02"), NumCell(30), NumCell(32),
         NumCell(29), NumCell(31), NumCell(41), NumCell(100000000)>>,
       <<TextCell("GARAN"), TextCell("2024-01-02"), NumCell(50), NumCell(52),
         NumCell(49), NumCell(51), NumCell(61), NumCell(123456789)>> >>]

\* The canonical column names, no variant's symbol column; row 2 has a text
\* where the open price should be.
FileCanon ==
    [cols |-> HdrCanon,
     rows |-> <<
       <<TextCell("AKBNK"), TextCell("2024-01-02"), NumCell(70), NumCell(72),
         NumCell(69), NumCell(71), NumCell(1000)>>,
       <<TextCell("AKBNK"), TextCell("2024-01-03"), TextCell("abc"), NumCell(72),
         NumCell(69), NumCell(71), NumCell(1000)>> >>]

\* No variant's symbol column and no canonical Symbol column.
FileUnknown ==
    [cols |-> HdrUnknown,
     rows |-> <<
       <<TextCell("ISCTR"), TextCell("2024-01-02"), NumCell(80), NumCell(82),
         NumCell(79), NumCell(81), NumCell(91), NumCell(2000)>> >>]

\* Variant A with the raw close only; four rows, row 3 has no close.
FileARaw ==
    [cols |-> HdrARaw,
     rows |-> <<
       <<TextCell("SISE"), TextCell("2024-01-02"), NumCell(40), NumCell(42),
         NumCell(39), NumCell(41), NumCell(3000)>>,
       <<TextCell("SISE"), TextCell("2024-01-03"), NumCell(41), NumCell(43),
         NumCell(40), NumCell(42), NumCell(3100)>>,
       <<TextCell("SISE"), TextCell("2024-01-04"), NumCell(42), NumCell(44),
         NumCell(41), NaN, NumCell(3200)>>,
       <<TextCell("SISE"), TextCell("2024-01-05"), NumCell(43), NumCell(45),
         NumCell(42), NumCell(44), NumCell(3300)>> >>]

\* Variant B; the date of row 2, a complete row, does not parse.
FileBadDate ==
    [cols |-> HdrB,
     rows |-> <<
       <<TextCell("EREGL"), TextCell("2024-01-02"), NumCell(60), NumCell(62),
         NumCell(59), NumCell(61), NumCell(63), NumCell(4000)>>,
       <<TextCell("EREGL"), TextCell("not a date"), NumCell(60), NumCell(62),
         NumCell(59), NumCell(61), NumCell(63), NumCell(4000)>> >>]

\* Variant B; the date of row 2 does not parse, and the row has no volume.
FileBadDateDropped ==
    [cols |-> HdrB,
     rows |-> <<
       <<TextCell("TUPRS"), TextCell("2024-01-02"), NumCell(90), NumCell(92),
         NumCell(89), NumCell(91), NumCell(93), NumCell(5000)>>,
       <<TextCell("TUPRS"), TextCell("not a date"), NumCell(90), NumCell(92),
         NumCell(89), NumCell(91), NumCell(93), NaN>> >>]

\* Variant B; the volumes are 99,999,999 * 1,000,000 and 200,000,000 * 1,000,000.
FileHuge ==
    [cols |-> HdrB,
     rows |-> <<
       <<TextCell("ASELS"), TextCell("2024-01-02"), NumCell(20), NumCell(22),
         NumCell(19), NumCell(21), NumCell(23), LimbCell(99999999, 0)>>,
       <<TextCell("ASELS"), TextCell("2024-01-03"), NumCell(20), NumCell(22),
         NumCell(19), NumCell(21), NumCell(23), LimbCell(200000000, 0)>> >>]

\* Variant B; two rows of one symbol on one calendar date, at 09:30 and 15:30.
FileIntraday ==
    [cols |-> HdrB,
     rows |-> <<
       <<TextCell("BIMAS"), TextCell("2024-01-02 09:30"), NumCell(25), NumCell(27),
         NumCell(24), NumCell(26), NumCell(28), NumCell(6000)>>,
       <<TextCell("BIMAS"), TextCell("2024-01-02 15:30"), NumCell(26), NumCell(28),
         NumCell(25), NumCell(27), NumCell(29), NumCell(6100)>> >>]

\* Variant A, raw close only; the volume of row 1 and the close of row 3
\* are texts that are no numbers.
FileBadValue ==
    [cols |-> HdrARaw,
     rows |-> <<
       <<TextCell("KCHOL"), TextCell("2024-01-02"), NumCell(33), NumCell(35),
         NumCell(32), NumCell(34), TextCell("xyz")>>,
       <<TextCell("KCHOL"), TextCell("2024-01-03"), NumCell(33), NumCell(35),
         NumCell(32), NumCell(34), NumCell(7000)>>,
       <<TextCell("KCHOL"), TextCell("2024-01-04"), NumCell(33), NumCell(35),
         NumCell(32), TextCell("abc"), NumCell(7100)>>,
       <<TextCell("KCHOL"), TextCell("2024-01-05"), NumCell(36), NumCell(38),
         NumCell(35), NumCell(37), NumCell(7200)>> >>]

\* FileB with a byte-order mark before the first header name.
FileBom == [cols |-> <<BomName("HGDG_HS_KODU")>> \o Tail(HdrB), rows |-> FileB.rows]

\* the paths of the CSV files of the model
Catalog == {"a.csv", "b.csv", "canon.csv", "unknown.csv"}
\* the wider catalog: the variants of the close column and of the date defects
FileCatalog == {"a.csv", "b.csv", "araw.csv", "baddate.csv", "baddrop.csv", "unknown.csv"}
\* the files of a single call of process_csv_file: one per kind of content,
\* and a path that cannot be read
CallCatalog ==
    {"b.csv", "bom.csv", "canon.csv", "huge.csv", "intraday.csv", "badvalue.csv",
     "baddate.csv", "unknown.csv", "unreadable.csv"}
\* the files two concurrent imports work on
ParCatalog == {"a.csv", "b.csv"}
\* a clean file, and one file per defect: a value that is no number, a date
\* that does not parse, a header that is not recognized
LiveCatalog == {"b.csv", "canon.csv", "baddate.csv", "unknown.csv"}

\* line 26, pd.read_csv(file_path): the files do not change while the
\* import runs; an unknown path reads as an empty file
ReadCsv(path) ==
    CASE path = "a.csv" -> FileA
      [] path = "b.csv" -> FileB
      [] path = "canon.csv" -> FileCanon
      [] path = "unknown.csv" -> FileUnknown
      [] path = "araw.csv" -> FileARaw
      [] path = "baddate.csv" -> FileBadDate
      [] path = "baddrop.csv" -> FileBadDateDropped
      [] path = "huge.csv" -> FileHuge
      [] path = "intraday.csv" -> FileIntraday
      [] path = "badvalue.csv" -> FileBadValue
      [] path = "bom.csv" -> FileBom
      [] OTHER -> [cols |-> <<>>, rows |-> <<>>]

\* line 121
markets == <<"Crypto", "BIST", "NASDAQ", "NYSE">>
\* line 137: csv_files[:3]
FileLimit == 3

\* the import processes: each runs process_csv_file on its own connection
Writers == {1, 2}
\* the writer that serves main()'s calls of process_csv_file
W1 == 1

RECURSIVE SeqsUpTo(_, _)
\* the sequences of length at most n of distinct elements of S
SeqsUpTo(S, n) ==
    IF n = 0 THEN {<<>>}
    ELSE LET shorter == SeqsUpTo(S, n - 1)
         IN shorter \cup {Append(q, x) : q \in {q \in shorter : Len(q) = n - 1},
                                            x \in S} 

Injective(q) == \A a, b \in DOMAIN q : q[a] = q[b] => a = b
Listings == {q \in SeqsUpTo(Catalog, MaxListing) : Injective(q)}
FileListings == {q \in SeqsUpTo(FileCatalog, MaxFileListing) : Injective(q)}
LiveListings == {q \in SeqsUpTo(LiveCatalog, MaxFileListing) : Injective(q)}

\* ------------------------------------------------------------------ state

VARIABLES
    fs,             \* market |-> [exists, files]: the DATA directory
    store,          \* the committed rows of market_data
    faults,         \* store faults injected so far
    issued,         \* issued[id]: the file and the frame row the uuid id
                    \* was generated for
    runEnd,         \* the store at the end of each finished run of main
    mpc,            \* main: position
    run,            \* main: number of the current run
    mi,             \* main: index into markets
    todo,           \* main: the files the file loop iterates over
    fi,             \* main: index into todo
    total_files,    \* line 123
    total_records,  \* line 124
    visited,        \* main: the markets the market loop has taken up in this run
    processed,      \* main: per market, the files handed to process_csv_file
                    \* in this run
    pc,             \* process_csv_file: position, per writer
    file_path,
    market_name,
    df,             \* the frame after line 76
    pos,            \* position of the row loop in df
    volume,         \* line 86-88
    insert_count,   \* line 82
    conn,           \* "none", "open", "aborted" (the transaction is aborted),
                    \* "broken" (connection lost), "closed"
    txn,            \* rows inserted by the open transaction, not committed
    stmts,          \* index labels of the rows whose INSERT ran in the open transaction
    exc,            \* where the exception being handled was raised
    result,         \* the value process_csv_file returned
    attempted,      \* index labels of the rows the row loop has taken up
    committed,      \* index labels of the rows whose conn.commit() returned
    added,          \* the rows this call has added to the store
    failed          \* <<index label, where>> of each "Row insert failed"
                    \* message of this call (line 102)

mainVars == <<mpc, run, mi, todo, fi, total_files, total_records, visited,
              processed, runEnd>>
procVars == <<pc, file_path, market_name, df, pos, volume, insert_count, conn, txn,
              stmts, exc, result, attempted, committed, added, failed>>
vars == <<fs, store, faults, issued, mainVars, procVars>>

\* ------------------------------------------------------- process_csv_file

\* mutant: a date that does not parse fails its row, not the file
PrepareFileRowDates(f, market, firstId) ==
    IF f.cols = <<>>
    THEN [status |-> "error", df |-> <<>>]
    ELSE LET cols == Standardize(StripBOM(f.cols)) IN
         IF ~HasRequired(cols)
         THEN [status |-> "skip", df |-> <<>>]
         ELSE LET frame == DropNa(SelectRequired(cols, f.rows))
                  dated == SelectSeq(frame, LAMBDA r : CanParseDate(r.cells["Date"]))
              IN [status |-> "ok", df |-> AddFields(dated, market, firstId)]

\* lines 26-76 as a function of the file: "error" (read_csv raised on an
\* empty file), "skip" (lines 61 and 70) or "ok" with the frame to insert
PrepareFile(f, market, firstId) ==
    IF f.cols = <<>>
    THEN [status |-> "error", df |-> <<>>]
    ELSE LET cols == Standardize(StripBOM(f.cols)) IN
         IF ~HasRequired(cols)
         THEN [status |-> "skip", df |-> <<>>]
         ELSE LET frame == DropNa(SelectRequired(cols, f.rows)) IN
              IF ~DatesParse(frame)
              THEN [status |-> "skip", df |-> <<>>]
              ELSE [status |-> "ok", df |-> AddFields(frame, market, firstId)]

Row(w) == df[w][pos[w]]

\* the locals of a call that has not started
IdleLocals(w) ==
    /\ file_path' = [file_path EXCEPT ![w] = ""]
    /\ market_name' = [market_name EXCEPT ![w] = ""]
    /\ df' = [df EXCEPT ![w] = <<>>]
    /\ pos' = [pos EXCEPT ![w] = 0]
    /\ volume' = [volume EXCEPT ![w] = Num(0)]
    /\ insert_count' = [insert_count EXCEPT ![w] = 0]
    /\ conn' = [conn EXCEPT ![w] = "none"]
    /\ txn' = [txn EXCEPT ![w] = {}]
    /\ stmts' = [stmts EXCEPT ![w] = {}]
    /\ exc' = [exc EXCEPT ![w] = "none"]
    /\ result' = [result EXCEPT ![w] = 0]
    /\ attempted' = [attempted EXCEPT ![w] = {}]
    /\ committed' = [committed EXCEPT ![w] = {}]
    /\ added' = [added EXCEPT ![w] = {}]
    /\ failed' = [failed EXCEPT ![w] = {}]

\* mutant: the connection is opened before the columns and dates are checked
PrepareConnectsFirst(w) ==
    /\ pc[w] = "prepare"
    /\ LET p == PrepareFile(ReadCsv(file_path[w]), market_name[w], Len(issued) + 1) IN
       /\ pc' = [pc EXCEPT ![w] = CASE p.status = "error" -> "except_outer"
                                    [] p.status = "skip" -> "returned"
                                    [] p.status = "ok" -> "connect"]
       /\ conn' = [conn EXCEPT ![w] = IF p.status = "error" THEN @ ELSE "open"]
       /\ df' = [df EXCEPT ![w] = p.df]
       /\ issued' = issued \o [k \in DOMAIN p.df |->
                                  [path |-> file_path[w], row |-> p.df[k]]]
    /\ result' = [result EXCEPT ![w] = 0]
    /\ UNCHANGED <<fs, store, faults, mainVars, file_path, market_name, pos, volume,
                   insert_count, txn, stmts, exc, attempted, committed,
                   added, failed>>

\* lines 22-76
Prepare(w) ==
    /\ pc[w] = "prepare"
    /\ LET p == PrepareFile(ReadCsv(file_path[w]), market_name[w], Len(issued) + 1) IN
       /\ pc' = [pc EXCEPT ![w] = CASE p.status = "error" -> "except_outer"
                                    [] p.status = "skip" -> "returned"
                                    [] p.status = "ok" -> "connect"]
       /\ df' = [df EXCEPT ![w] = p.df]
       /\ issued' = issued \o [k \in DOMAIN p.df |->
                                  [path |-> file_path[w], row |-> p.df[k]]]
    /\ result' = [result EXCEPT ![w] = 0]
    /\ UNCHANGED <<fs, store, faults, mainVars, file_path, market_name, pos, volume,
                   insert_count, conn, txn, stmts, exc, attempted, committed,
                   added, failed>>

\* lines 79-82
Connect(w) ==
    /\ pc[w] = "connect"
    /\ conn' = [conn EXCEPT ![w] = "open"]
    /\ insert_count' = [insert_count EXCEPT ![w] = 0]
    /\ pos' = [pos EXCEPT ![w] = 1]
    /\ pc' = [pc EXCEPT ![w] = "loop"]
    /\ UNCHANGED <<fs, store, faults, issued, mainVars, file_path, market_name, df, volume,
                   txn, stmts, exc, result, attempted, committed, added, failed>>

\* line 79: psycopg2.connect raises (the store is unreachable)
ConnectFails(w) ==
    /\ pc[w] = "connect"
    /\ faults < MaxFaults
    /\ faults' = faults + 1
    /\ exc' = [exc EXCEPT ![w] = "connect"]
    /\ pc' = [pc EXCEPT ![w] = "except_outer"]
    /\ UNCHANGED <<fs, store, issued, mainVars, file_path, market_name, df, pos, volume,
                   insert_count, conn, txn, stmts, result, attempted, committed,
                   added, failed>>

\* line 83: the next row of df.iterrows(), or the end of the loop
Loop(w) ==
    /\ pc[w] = "loop"
    /\ IF pos[w] > Len(df[w])
       THEN /\ pc' = [pc EXCEPT ![w] = "close"]
            /\ UNCHANGED attempted
       ELSE /\ pc' = [pc EXCEPT ![w] = "scale"]
            /\ attempted' = [attempted EXCEPT ![w] = @ \cup {Row(w).index}]
    /\ UNCHANGED <<fs, store, faults, issued, mainVars, file_path, market_name, df, pos,
                   volume, insert_count, conn, txn, stmts, exc, result, committed,
                   added, failed>>

\* mutant: a volume that is no number ends the processing of the file
ScaleFailsFile(w) ==
    /\ pc[w] = "scale"
    /\ IF CanFloat(Row(w).Volume)
       THEN /\ volume' = [volume EXCEPT ![w] = ScaleVolume(Float(Row(w).Volume))]
            /\ pc' = [pc EXCEPT ![w] = "execute"]
            /\ UNCHANGED exc
       ELSE /\ pc' = [pc EXCEPT ![w] = "except_outer"]
            /\ exc' = [exc EXCEPT ![w] = "float"]
            /\ UNCHANGED volume
    /\ UNCHANGED <<fs, store, faults, issued, mainVars, file_path, market_name, df, pos,
                   insert_count, conn, txn, stmts, result, attempted, committed,
                   added, failed>>

\* lines 86-88
Scale(w) ==
    /\ pc[w] = "scale"
    /\ IF CanFloat(Row(w).Volume)
       THEN /\ volume' = [volume EXCEPT ![w] = ScaleVolume(Float(Row(w).Volume))]
            /\ pc' = [pc EXCEPT ![w] = "execute"]
            /\ UNCHANGED exc
       ELSE /\ pc' = [pc EXCEPT ![w] = "except_row"]
            /\ exc' = [exc EXCEPT ![w] = "float"]
            /\ UNCHANGED volume
    /\ UNCHANGED <<fs, store, faults, issued, mainVars, file_path, market_name, df, pos,
                   insert_count, conn, txn, stmts, result, attempted, committed,
                   added, failed>>

\* the unique index on the conflict target makes an INSERT wait while
\* another connection's open transaction holds a row of the same key
MustWait(w, rec) ==
    \E v \in Writers \ {w} : \E r \in txn[v] : Key(r) = Key(rec)

\* mutant: the INSERT does not wait for the other connection's transaction
ExecuteNoWait(w) ==
    /\ pc[w] = "execute"
    /\ conn[w] = "open"
    /\ IF ParamsCoerce(Row(w))
       THEN /\ txn' = [txn EXCEPT ![w] = @ \cup InsertOnConflictDoNothing(
                           store \cup @, InsertParams(Row(w), volume[w]))]
            /\ stmts' = [stmts EXCEPT ![w] = @ \cup {Row(w).index}]
            /\ pc' = [pc EXCEPT ![w] = "commit"]
            /\ UNCHANGED exc
       ELSE /\ pc' = [pc EXCEPT ![w] = "except_row"]
            /\ exc' = [exc EXCEPT ![w] = "float"]
            /\ UNCHANGED <<txn, stmts>>
    /\ UNCHANGED <<fs, store, faults, issued, mainVars, file_path, market_name, df, pos,
                   volume, insert_count, conn, result, attempted, committed, added,
                   failed>>

\* lines 90-98: the parameters are built, then the statement runs in the
\* connection's open transaction
Execute(w) ==
    /\ pc[w] = "execute"
    /\ conn[w] = "open"
    /\ IF ParamsCoerce(Row(w))
       THEN /\ ~MustWait(w, InsertParams(Row(w), volume[w]))
            /\ txn' = [txn EXCEPT ![w] = @ \cup InsertOnConflictDoNothing(
                           store \cup @, InsertParams(Row(w), volume[w]))]
            /\ stmts' = [stmts EXCEPT ![w] = @ \cup {Row(w).index}]
            /\ pc' = [pc EXCEPT ![w] = "commit"]
            /\ UNCHANGED exc
       ELSE /\ pc' = [pc EXCEPT ![w] = "except_row"]
            /\ exc' = [exc EXCEPT ![w] = "float"]
            /\ UNCHANGED <<txn, stmts>>
    /\ UNCHANGED <<fs, store, faults, issued, mainVars, file_path, market_name, df, pos,
                   volume, insert_count, conn, result, attempted, committed, added,
                   failed>>

\* line 90: the store rejects the statement with an error that is not the
\* natural-key conflict (always so while the transaction is aborted); the
\* transaction is aborted, the connection lives
ExecuteStatementError(w) ==
    /\ pc[w] = "execute"
    /\ ParamsCoerce(Row(w))
    /\ conn[w] = "aborted" \/ faults < MaxFaults
    /\ faults' = IF conn[w] = "aborted" THEN faults ELSE faults + 1
    /\ conn' = [conn EXCEPT ![w] = "aborted"]
    /\ exc' = [exc EXCEPT ![w] = "execute"]
    /\ pc' = [pc EXCEPT ![w] = "except_row"]
    /\ UNCHANGED <<fs, store, issued, mainVars, file_path, market_name, df, pos, volume,
                   insert_count, txn, stmts, result, attempted, committed, added,
                   failed>>

\* line 90: the connection is lost while the statement runs; the server
\* discards the open transaction
ExecuteConnectionLost(w) ==
    /\ pc[w] = "execute"
    /\ ParamsCoerce(Row(w))
    /\ faults < MaxFaults
    /\ faults' = faults + 1
    /\ conn' = [conn EXCEPT ![w] = "broken"]
    /\ txn' = [txn EXCEPT ![w] = {}]
    /\ stmts' = [stmts EXCEPT ![w] = {}]
    /\ exc' = [exc EXCEPT ![w] = "execute"]
    /\ pc' = [pc EXCEPT ![w] = "except_row"]
    /\ UNCHANGED <<fs, store, issued, mainVars, file_path, market_name, df, pos, volume,
                   insert_count, result, attempted, committed, added, failed>>

\* mutant: no commit per row (the inserts pile up in one transaction)
CommitDeferred(w) ==
    /\ pc[w] = "commit"
    /\ pc' = [pc EXCEPT ![w] = "count"]
    /\ UNCHANGED <<fs, store, faults, issued, mainVars, file_path, market_name, df, pos,
                   volume, insert_count, conn, txn, stmts, exc, result, attempted,
                   committed, added, failed>>

\* mutant: the statement replaces a stored row of the same key
\* (ON CONFLICT ... DO UPDATE)
CommitReplaces(w) ==
    /\ pc[w] = "commit"
    /\ LET rec == InsertParams(Row(w), volume[w]) IN
       store' = {r \in store : Key(r) # Key(rec)} \cup {rec}
    /\ added' = [added EXCEPT ![w] = @ \cup (txn[w] \ store)]
    /\ committed' = [committed EXCEPT ![w] = @ \cup stmts[w]]
    /\ txn' = [txn EXCEPT ![w] = {}]
    /\ stmts' = [stmts EXCEPT ![w] = {}]
    /\ pc' = [pc EXCEPT ![w] = "count"]
    /\ UNCHANGED <<fs, faults, issued, mainVars, file_path, market_name, df, pos, volume,
                   insert_count, conn, exc, result, attempted, failed>>

\* line 99
Commit(w) ==
    /\ pc[w] = "commit"
    /\ store' = store \cup txn[w]
    /\ added' = [added EXCEPT ![w] = @ \cup (txn[w] \ store)]
    /\ committed' = [committed EXCEPT ![w] = @ \cup stmts[w]]
    /\ txn' = [txn EXCEPT ![w] = {}]
    /\ stmts' = [stmts EXCEPT ![w] = {}]
    /\ pc' = [pc EXCEPT ![w] = "count"]
    /\ UNCHANGED <<fs, faults, issued, mainVars, file_path, market_name, df, pos, volume,
                   insert_count, conn, exc, result, attempted, failed>>

\* line 99: the connection is lost during the commit, which raises; the
\* store has applied the commit before the loss, or it has not
CommitConnectionLost(w) ==
    /\ pc[w] = "commit"
    /\ faults < MaxFaults
    /\ faults' = faults + 1
    /\ \E applied \in BOOLEAN :
          /\ store' = IF applied THEN store \cup txn[w] ELSE store
          /\ added' = [added EXCEPT ![w] = IF applied THEN @ \cup (txn[w] \ store) ELSE @]
    /\ conn' = [conn EXCEPT ![w] = "broken"]
    /\ txn' = [txn EXCEPT ![w] = {}]
    /\ stmts' = [stmts EXCEPT ![w] = {}]
    /\ exc' = [exc EXCEPT ![w] = "commit"]
    /\ pc' = [pc EXCEPT ![w] = "except_row"]
    /\ UNCHANGED <<fs, issued, mainVars, file_path, market_name, df, pos, volume,
                   insert_count, result, attempted, committed, failed>>

\* mutant: insert_count is not incremented
CountNoIncrement(w) ==
    /\ pc[w] = "count"
    /\ pos' = [pos EXCEPT ![w] = @ + 1]
    /\ pc' = [pc EXCEPT ![w] = "loop"]
    /\ UNCHANGED <<fs, store, faults, issued, mainVars, file_path, market_name, df, volume,
                   insert_count, conn, txn, stmts, exc, result, attempted, committed,
                   added, failed>>

\* line 100
Count(w) ==
    /\ pc[w] = "count"
    /\ insert_count' = [insert_count EXCEPT ![w] = @ + 1]
    /\ pos' = [pos EXCEPT ![w] = @ + 1]
    /\ pc' = [pc EXCEPT ![w] = "loop"]
    /\ UNCHANGED <<fs, store, faults, issued, mainVars, file_path, market_name, df, volume,
                   conn, txn, stmts, exc, result, attempted, committed, added, failed>>

\* mutant: a failed row ends the row loop (break for continue)
ExceptRowAborts(w) ==
    /\ pc[w] = "except_row"
    /\ failed' = [failed EXCEPT ![w] = @ \cup {<<Row(w).index, exc[w]>>}]
    /\ IF conn[w] = "broken"
       THEN /\ pc' = [pc EXCEPT ![w] = "except_outer"]
            /\ exc' = [exc EXCEPT ![w] = "rollback"]
            /\ UNCHANGED <<conn, txn, stmts>>
       ELSE /\ conn' = [conn EXCEPT ![w] = "open"]
            /\ txn' = [txn EXCEPT ![w] = {}]
            /\ stmts' = [stmts EXCEPT ![w] = {}]
            /\ exc' = [exc EXCEPT ![w] = "none"]
            /\ pc' = [pc EXCEPT ![w] = "close"]
    /\ UNCHANGED <<fs, store, faults, issued, mainVars, file_path, market_name, df, pos,
                   volume, insert_count, result, attempted, committed, added>>

\* mutant: no conn.rollback() after a failed row
ExceptRowNoRollback(w) ==
    /\ pc[w] = "except_row"
    /\ failed' = [failed EXCEPT ![w] = @ \cup {<<Row(w).index, exc[w]>>}]
    /\ exc' = [exc EXCEPT ![w] = "none"]
    /\ pos' = [pos EXCEPT ![w] = @ + 1]
    /\ pc' = [pc EXCEPT ![w] = "loop"]
    /\ UNCHANGED <<fs, store, faults, issued, mainVars, file_path, market_name, df, volume,
                   insert_count, conn, txn, stmts, result, attempted, committed, added>>

\* mutant: no outer try: the exception conn.rollback() raises on a lost
\* connection leaves process_csv_file
ExceptRowEscapes(w) ==
    /\ pc[w] = "except_row"
    /\ failed' = [failed EXCEPT ![w] = @ \cup {<<Row(w).index, exc[w]>>}]
    /\ IF conn[w] = "broken"
       THEN /\ pc' = [pc EXCEPT ![w] = "raised"]
            /\ exc' = [exc EXCEPT ![w] = "rollback"]
            /\ UNCHANGED <<conn, txn, stmts, pos>>
       ELSE /\ conn' = [conn EXCEPT ![w] = "open"]
            /\ txn' = [txn EXCEPT ![w] = {}]
            /\ stmts' = [stmts EXCEPT ![w] = {}]
            /\ exc' = [exc EXCEPT ![w] = "none"]
            /\ pos' = [pos EXCEPT ![w] = @ + 1]
            /\ pc' = [pc EXCEPT ![w] = "loop"]
    /\ UNCHANGED <<fs, store, faults, issued, mainVars, file_path, market_name, df, volume,
                   insert_count, result, attempted, committed, added>>

\* mutant: the handler of a failed row counts the row
ExceptRowCounts(w) ==
    /\ pc[w] = "except_row"
    /\ failed' = [failed EXCEPT ![w] = @ \cup {<<Row(w).index, exc[w]>>}]
    /\ insert_count' = [insert_count EXCEPT ![w] = @ + 1]
    /\ IF conn[w] = "broken"
       THEN /\ pc' = [pc EXCEPT ![w] = "except_outer"]
            /\ exc' = [exc EXCEPT ![w] = "rollback"]
            /\ UNCHANGED <<conn, txn, stmts, pos>>
       ELSE /\ conn' = [conn EXCEPT ![w] = "open"]
            /\ txn' = [txn EXCEPT ![w] = {}]
            /\ stmts' = [stmts EXCEPT ![w] = {}]
            /\ exc' = [exc EXCEPT ![w] = "none"]
            /\ pos' = [pos EXCEPT ![w] = @ + 1]
            /\ pc' = [pc EXCEPT ![w] = "loop"]
    /\ UNCHANGED <<fs, store, faults, issued, mainVars, file_path, market_name, df, volume,
                   result, attempted, committed, added>>

\* lines 101-104: the message, then conn.rollback(), which raises on a lost
\* connection (the exception leaves the row loop), then the next row
ExceptRow(w) ==
    /\ pc[w] = "except_row"
    /\ failed' = [failed EXCEPT ![w] = @ \cup {<<Row(w).index, exc[w]>>}]
    /\ IF conn[w] = "broken"
       THEN /\ pc' = [pc EXCEPT ![w] = "except_outer"]
            /\ exc' = [exc EXCEPT ![w] = "rollback"]
            /\ UNCHANGED <<conn, txn, stmts, pos>>
       ELSE /\ conn' = [conn EXCEPT ![w] = "open"]
            /\ txn' = [txn EXCEPT ![w] = {}]
            /\ stmts' = [stmts EXCEPT ![w] = {}]
            /\ exc' = [exc EXCEPT ![w] = "none"]
            /\ pos' = [pos EXCEPT ![w] = @ + 1]
            /\ pc' = [pc EXCEPT ![w] = "loop"]
    /\ UNCHANGED <<fs, store, faults, issued, mainVars, file_path, market_name, df, volume,
                   insert_count, result, attempted, committed, added>>

\* lines 106-110
Close(w) ==
    /\ pc[w] = "close"
    /\ conn' = [conn EXCEPT ![w] = "closed"]
    /\ result' = [result EXCEPT ![w] = insert_count[w]]
    /\ pc' = [pc EXCEPT ![w] = "returned"]
    /\ UNCHANGED <<fs, store, faults, issued, mainVars, file_path, market_name, df, pos,
                   volume, insert_count, txn, stmts, exc, attempted, committed,
                   added, failed>>

\* mutant: the outer handler re-raises: the exception leaves process_csv_file
ExceptOuterRaises(w) ==
    /\ pc[w] = "except_outer"
    /\ pc' = [pc EXCEPT ![w] = "raised"]
    /\ UNCHANGED <<fs, store, faults, issued, mainVars, file_path, market_name, df, pos,
                   volume, insert_count, conn, txn, stmts, exc, result, attempted,
                   committed, added, failed>>

\* lines 112-114
ExceptOuter(w) ==
    /\ pc[w] = "except_outer"
    /\ result' = [result EXCEPT ![w] = 0]
    /\ exc' = [exc EXCEPT ![w] = "none"]
    /\ pc' = [pc EXCEPT ![w] = "returned"]
    /\ UNCHANGED <<fs, store, faults, issued, mainVars, file_path, market_name, df, pos,
                   volume, insert_count, conn, txn, stmts, attempted, committed,
                   added, failed>>

ProcessCsvFile(w) ==
    \/ Prepare(w)
    \/ Connect(w)
    \/ ConnectFails(w)
    \/ Loop(w)
    \/ Scale(w)
    \/ Execute(w)
    \/ ExecuteStatementError(w)
    \/ ExecuteConnectionLost(w)
    \/ Commit(w)
    \/ CommitConnectionLost(w)
    \/ Count(w)
    \/ ExceptRow(w)
    \/ Close(w)
    \/ ExceptOuter(w)

\* -------------------------------------------------------------------- main

Min(a, b) == IF a < b THEN a ELSE b

\* lines 117-124
MainStart ==
    /\ mpc = "start"
    /\ total_files' = 0
    /\ total_records' = 0
    /\ mi' = 1
    /\ visited' = <<>>
    /\ processed' = [m \in Range(markets) |-> <<>>]
    /\ mpc' = "markets"
    /\ UNCHANGED <<fs, store, faults, issued, procVars, run, todo, fi, runEnd>>

\* mutant: every file of BIST is processed (csv_files for csv_files[:3])
NextMarketNoLimit ==
    /\ mpc = "markets"
    /\ IF mi > Len(markets)
       THEN /\ mpc' = "done"
            /\ runEnd' = Append(runEnd, store)
            /\ UNCHANGED <<mi, todo, fi, visited>>
       ELSE /\ visited' = Append(visited, markets[mi])
            /\ IF ~fs[markets[mi]].exists
               THEN /\ mi' = mi + 1
                    /\ UNCHANGED <<mpc, todo, fi, runEnd>>
               ELSE IF markets[mi] = "BIST"
               THEN /\ todo' = fs[markets[mi]].files
                    /\ fi' = 1
                    /\ mpc' = "files"
                    /\ UNCHANGED <<mi, runEnd>>
               ELSE /\ mi' = mi + 1
                    /\ UNCHANGED <<mpc, todo, fi, runEnd>>
    /\ UNCHANGED <<fs, store, faults, issued, procVars, run, total_files, total_records,
                   processed>>

\* mutant: a missing directory ends the market loop (break for continue)
NextMarketMissingStops ==
    /\ mpc = "markets"
    /\ IF mi > Len(markets)
       THEN /\ mpc' = "done"
            /\ runEnd' = Append(runEnd, store)
            /\ UNCHANGED <<mi, todo, fi, visited>>
       ELSE /\ visited' = Append(visited, markets[mi])
            /\ IF ~fs[markets[mi]].exists
               THEN /\ mpc' = "done"
                    /\ runEnd' = Append(runEnd, store)
                    /\ UNCHANGED <<mi, todo, fi>>
               ELSE IF markets[mi] = "BIST"
               THEN /\ todo' = SubSeq(fs[markets[mi]].files, 1,
                                      Min(FileLimit, Len(fs[markets[mi]].files)))
                    /\ fi' = 1
                    /\ mpc' = "files"
                    /\ UNCHANGED <<mi, runEnd>>
               ELSE /\ mi' = mi + 1
                    /\ UNCHANGED <<mpc, todo, fi, runEnd>>
    /\ UNCHANGED <<fs, store, faults, issued, procVars, run, total_files, total_records,
                   processed>>

\* lines 126-135 and 141-148: the next market, or the summary
NextMarket ==
    /\ mpc = "markets"
    /\ IF mi > Len(markets)
       THEN /\ mpc' = "done"
            /\ runEnd' = Append(runEnd, store)
            /\ UNCHANGED <<mi, todo, fi, visited>>
       ELSE /\ visited' = Append(visited, markets[mi])
            /\ IF ~fs[markets[mi]].exists
               THEN /\ mi' = mi + 1
                    /\ UNCHANGED <<mpc, todo, fi, runEnd>>
               ELSE IF markets[mi] = "BIST"
               THEN /\ todo' = SubSeq(fs[markets[mi]].files, 1,
                                      Min(FileLimit, Len(fs[markets[mi]].files)))
                    /\ fi' = 1
                    /\ mpc' = "files"
                    /\ UNCHANGED <<mi, runEnd>>
               ELSE /\ mi' = mi + 1
                    /\ UNCHANGED <<mpc, todo, fi, runEnd>>
    /\ UNCHANGED <<fs, store, faults, issued, procVars, run, total_files, total_records,
                   processed>>

\* lines 137-138: the next file of the market is handed to process_csv_file
NextFile ==
    /\ mpc = "files"
    /\ IF fi > Len(todo)
       THEN /\ mi' = mi + 1
            /\ mpc' = "markets"
            /\ todo' = <<>>
            /\ fi' = 0
            /\ UNCHANGED <<pc, file_path, market_name, processed>>
       ELSE /\ pc[W1] = "idle"
            /\ pc' = [pc EXCEPT ![W1] = "prepare"]
            /\ file_path' = [file_path EXCEPT ![W1] = todo[fi]]
            /\ market_name' = [market_name EXCEPT ![W1] = markets[mi]]
            /\ processed' = [processed EXCEPT ![markets[mi]] = Append(@, todo[fi])]
            /\ mpc' = "in_call"
            /\ UNCHANGED <<mi, todo, fi>>
    /\ UNCHANGED <<fs, store, faults, issued, run, total_files, total_records, visited,
                   runEnd,
                   df, pos, volume, insert_count, conn, txn, stmts, exc,
                   result, attempted, committed, added, failed>>

\* lines 138-140: process_csv_file has returned
FileReturned ==
    /\ mpc = "in_call"
    /\ pc[W1] = "returned"
    /\ total_records' = total_records + result[W1]
    /\ total_files' = total_files + 1
    /\ fi' = fi + 1
    /\ mpc' = "files"
    /\ pc' = [pc EXCEPT ![W1] = "idle"]
    /\ IdleLocals(W1)
    /\ UNCHANGED <<fs, store, faults, issued, run, mi, todo, visited, processed, runEnd>>

\* the script is started again
Rerun ==
    /\ mpc = "done"
    /\ run < MaxRuns
    /\ run' = run + 1
    /\ mpc' = "start"
    /\ UNCHANGED <<fs, store, faults, issued, procVars, mi, todo, fi,
                   total_files, total_records, visited, processed, runEnd>>

Main == MainStart \/ NextMarket \/ NextFile \/ FileReturned \/ Rerun

\* ----------------------------------------------------------- specification

\* the directories of DATA: none, any one or all of them are missing; BIST
\* holds any listing of catalog files, the other markets one file
DirsOf(missings, listings) ==
    {[m \in Range(markets) |->
         IF m \in missing THEN [exists |-> FALSE, files |-> <<>>]
         ELSE IF m = "BIST" THEN [exists |-> TRUE, files |-> listing]
         ELSE [exists |-> TRUE, files |-> <<"canon.csv">>]] :
       missing \in missings, listing \in listings}

Dirs(listings) ==
    DirsOf({{}, Range(markets)} \cup {{m} : m \in Range(markets)}, listings)

InitFs == fs \in Dirs(Listings)

\* the state before main() is started, but for the DATA directory
InitRest ==
    /\ store = {}
    /\ faults = 0
    /\ issued = <<>>
    /\ runEnd = <<>>
    /\ mpc = "start"
    /\ run = 1
    /\ mi = 0
    /\ todo = <<>>
    /\ fi = 0
    /\ total_files = 0
    /\ total_records = 0
    /\ visited = <<>>
    /\ processed = [m \in Range(markets) |-> <<>>]
    /\ pc = [w \in Writers |-> "idle"]
    /\ file_path = [w \in Writers |-> ""]
    /\ market_name = [w \in Writers |-> ""]
    /\ df = [w \in Writers |-> <<>>]
    /\ pos = [w \in Writers |-> 0]
    /\ volume = [w \in Writers |-> Num(0)]
    /\ insert_count = [w \in Writers |-> 0]
    /\ conn = [w \in Writers |-> "none"]
    /\ txn = [w \in Writers |-> {}]
    /\ stmts = [w \in Writers |-> {}]
    /\ result = [w \in Writers |-> 0]
    /\ exc = [w \in Writers |-> "none"]
    /\ attempted = [w \in Writers |-> {}]
    /\ committed = [w \in Writers |-> {}]
    /\ added = [w \in Writers |-> {}]
    /\ failed = [w \in Writers |-> {}]

Init == InitFs /\ InitRest

Next == Main \/ ProcessCsvFile(W1)

Spec == Init /\ [][Next]_vars

\* the same program over the files of the wider catalog, every directory
\* being there
InitFile == fs \in DirsOf({{}}, FileListings) /\ InitRest

SpecFile == InitFile /\ [][Next]_vars

\* the same program over the files with a defect each; the script is one
\* sequential process, which takes its next step as long as it has one
InitLive == fs \in Dirs(LiveListings) /\ InitRest

SpecLive == InitLive /\ [][Next]_vars /\ WF_vars(Next)

\* two import processes at once, each in its call of process_csv_file for a
\* file of BIST, each on its own connection to the one store; each process
\* takes its next step as long as it has one
InitPar ==
    /\ \E p1, p2 \in ParCatalog :
          /\ file_path = [w \in Writers |-> IF w = W1 THEN p1 ELSE p2]
          /\ fs = [m \in Range(markets) |->
                     [exists |-> TRUE,
                      files |-> IF m # "BIST" THEN <<"canon.csv">>
                                ELSE IF p1 = p2 THEN <<p1>> ELSE <<p1, p2>>]]
    /\ store = {}
    /\ faults = 0
    /\ issued = <<>>
    /\ runEnd = <<>>
    /\ mpc = "in_call"
    /\ run = 1
    /\ mi = 2
    /\ todo = <<>>
    /\ fi = 0
    /\ total_files = 0
    /\ total_records = 0
    /\ visited = <<"Crypto", "BIST">>
    /\ processed = [m \in Range(markets) |-> <<>>]
    /\ pc = [w \in Writers |-> "prepare"]
    /\ market_name = [w \in Writers |-> "BIST"]
    /\ df = [w \in Writers |-> <<>>]
    /\ pos = [w \in Writers |-> 0]
    /\ volume = [w \in Writers |-> Num(0)]
    /\ insert_count = [w \in Writers |-> 0]
    /\ conn = [w \in Writers |-> "none"]
    /\ txn = [w \in Writers |-> {}]
    /\ stmts = [w \in Writers |-> {}]
    /\ result = [w \in Writers |-> 0]
    /\ exc = [w \in Writers |-> "none"]
    /\ attempted = [w \in Writers |-> {}]
    /\ committed = [w \in Writers |-> {}]
    /\ added = [w \in Writers |-> {}]
    /\ failed = [w \in Writers |-> {}]

NextPar == \E w \in Writers : ProcessCsvFile(w)

SpecPar ==
    InitPar /\ [][NextPar]_vars /\ \A w \in Writers : WF_vars(ProcessCsvFile(w))

\* one call process_csv_file(file, market), for any file of the call
\* catalog and any market label, on an empty store
InitCall ==
    /\ \E p \in CallCatalog, k \in DOMAIN markets :
          /\ file_path = [w \in Writers |-> IF w = W1 THEN p ELSE ""]
          /\ market_name = [w \in Writers |-> IF w = W1 THEN markets[k] ELSE ""]
          /\ fs = [m \in Range(markets) |->
                     [exists |-> TRUE,
                      files |-> IF m = markets[k] THEN <<p>> ELSE <<"canon.csv">>]]
          /\ mi = k
          /\ visited = SubSeq(markets, 1, k)
    /\ store = {}
    /\ faults = 0
    /\ issued = <<>>
    /\ runEnd = <<>>
    /\ mpc = "in_call"
    /\ run = 1
    /\ todo = <<>>
    /\ fi = 0
    /\ total_files = 0
    /\ total_records = 0
    /\ processed = [m \in Range(markets) |-> <<>>]
    /\ pc = [w \in Writers |-> IF w = W1 THEN "prepare" ELSE "idle"]
    /\ df = [w \in Writers |-> <<>>]
    /\ pos = [w \in Writers |-> 0]
    /\ volume = [w \in Writers |-> Num(0)]
    /\ insert_count = [w \in Writers |-> 0]
    /\ conn = [w \in Writers |-> "none"]
    /\ txn = [w \in Writers |-> {}]
    /\ stmts = [w \in Writers |-> {}]
    /\ result = [w \in Writers |-> 0]
    /\ exc = [w \in Writers |-> "none"]
    /\ attempted = [w \in Writers |-> {}]
    /\ committed = [w \in Writers |-> {}]
    /\ added = [w \in Writers |-> {}]
    /\ failed = [w \in Writers |-> {}]

NextCall == ProcessCsvFile(W1)

SpecCall == InitCall /\ [][NextCall]_vars

\* ------------------------------------------------------------------ claims

\* the natural key (Symbol, Timeframe, Timestamp) of two stored rows agrees
SameNaturalKey(a, b) ==
    a.Symbol = b.Symbol /\ a.Timeframe = b.Timeframe /\ a.Timestamp = b.Timestamp

\* a stored row has the natural key of a frame row
HasKeyOf(r, row) ==
    r.Symbol = row.Symbol.text /\ r.Timeframe = row.Timeframe /\ r.Timestamp = row.Timestamp

\* the index labels of the frame of a call
FrameIndex(w) == {df[w][k].index : k \in DOMAIN df[w]}

\* the index labels of the "Row insert failed" messages of a call
FailedIndex(w) == {f[1] : f \in failed[w]}

\* C1: in every reachable state of the store, after any sequence of import
\* runs over overlapping files, no two stored rows share the same
\* (Symbol, Timeframe, Timestamp).
KeyUniqueness ==
    \A a, b \in store : SameNaturalKey(a, b) => a = b

\* two runs over overlapping files have ended, one of them hit by a store
\* fault, and the store holds rows of several files
KeyUniquenessWitness ==
    /\ Len(runEnd) = 2
    /\ faults = 1
    /\ Cardinality(store) >= 3
    /\ \E a, b \in store : a.Symbol # b.Symbol

\* C2: with no store failure, a second run of the import over the same
\* files adds no row: the store has the same rows, and as many, as after
\* the first run.
Idempotence ==
    faults = 0 =>
        \A k \in 2..Len(runEnd) :
            /\ runEnd[k] \ runEnd[k - 1] = {}
            /\ Cardinality(runEnd[k]) = Cardinality(runEnd[k - 1])

\* the second run has ended without any store fault; it processed files
\* whose rows the first run had stored
IdempotenceWitness ==
    /\ Len(runEnd) = 2
    /\ faults = 0
    /\ mpc = "done"
    /\ total_files >= 2
    /\ Cardinality(runEnd[1]) >= 3

\* C3: the count process_csv_file reports as inserted (its return value on
\* the normal path, no store fault having occurred) counts only the records
\* that committed as new rows; a record whose insert hit a natural-key
\* conflict is not counted.
InsertedCountsOnlyNewRows ==
    \A w \in Writers :
        (pc[w] = "returned" /\ conn[w] = "closed" /\ faults = 0) =>
            result[w] = Cardinality(added[w])

\* C4 as claimed: whenever a record of the file has failed, the records
\* committed before it are in the store and every record of the frame has
\* been attempted by the time the call returns.
FaultIsolation ==
    \A w \in Writers :
        /\ added[w] \subseteq store
        /\ (pc[w] = "returned" /\ failed[w] # {}) => attempted[w] = FrameIndex(w)

\* C4 as amended: the same, for failures that leave the connection usable
\* (conn.rollback() succeeds): the records committed by the call stay in the
\* store and every record of the frame has been attempted when the call
\* returns.
FaultIsolationUsableConnection ==
    \A w \in Writers :
        /\ added[w] \subseteq store
        /\ (pc[w] = "returned" /\ failed[w] # {} /\ conn[w] # "broken")
              => attempted[w] = FrameIndex(w)

\* the store rejected the insert of one record, and a later record of the
\* same file was attempted, committed and stored
FaultIsolationWitness ==
    \E w \in Writers :
        /\ pc[w] = "returned"
        /\ conn[w] = "closed"
        /\ \E f \in failed[w] :
              /\ f[2] = "execute"
              /\ \E k \in DOMAIN df[w] :
                    /\ df[w][k].index > f[1]
                    /\ df[w][k].index \in committed[w]
                    /\ \E r \in added[w] : r.Id = df[w][k].Id /\ r \in store

\* C5: the open transaction never holds the inserts of two records; a
\* commit covers exactly the insert of the current record, and when the
\* next insert is executed the transaction is empty.
PerRecordUnitOfWork ==
    \A w \in Writers :
        /\ Cardinality(stmts[w]) <= 1
        /\ Cardinality(txn[w]) <= 1
        /\ pc[w] = "commit" =>
              /\ stmts[w] = {Row(w).index}
              /\ \A r \in txn[w] : r.Id = Row(w).Id
        /\ pc[w] = "execute" => stmts[w] = {} /\ txn[w] = {}

\* the second record of a file is about to be committed on its own, after
\* the first one was
PerRecordUnitOfWorkWitness ==
    \E w \in Writers :
        /\ pc[w] = "commit"
        /\ pos[w] >= 2
        /\ txn[w] # {}
        /\ committed[w] # {}

\* C6: while a record is inserted and committed whose natural key a stored
\* row already has, that stored row keeps all its field values (its Id
\* included), and no other row with the key appears.
ConflictLeavesRowUntouched ==
    [][\A w \in Writers : \A r \in store :
          (pc[w] \in {"execute", "commit"} /\ HasKeyOf(r, Row(w)))
             => /\ r \in store'
                /\ \A q \in store' : SameNaturalKey(q, r) => q = r]_vars

\* a record was committed against a stored row of the same natural key and
\* of another Id, Close and Volume
ConflictLeavesRowUntouchedWitness ==
    \E w \in Writers : \E r \in store :
        /\ pc[w] = "count"
        /\ HasKeyOf(r, Row(w))
        /\ r.Id # Row(w).Id
        /\ r.Close # Float(Row(w).Close)
        /\ r.Volume # volume[w]

\* C7: a record whose insert raised (building the parameters or executing
\* the statement) is rolled back before the next record is taken up, adds
\* no row to the store, is not counted in insert_count and is reported by a
\* "Row insert failed" message; every record left behind was committed or
\* reported failed.
PersistenceFailureAccounting ==
    \A w \in Writers :
        /\ pc[w] \in {"loop", "scale", "execute"} =>
              txn[w] = {} /\ stmts[w] = {} /\ conn[w] = "open"
        /\ \A f \in failed[w] :
              f[2] \in {"float", "execute"} =>
                 /\ f[1] \notin committed[w]
                 /\ \A k \in DOMAIN df[w] :
                       df[w][k].index = f[1] =>
                          \A r \in store \cup txn[w] : r.Id # df[w][k].Id
        /\ FailedIndex(w) \cap committed[w] = {}
        /\ pc[w] \in {"loop", "scale", "execute", "commit", "except_row", "close"} =>
              /\ insert_count[w] = Cardinality(committed[w])
              /\ \A k \in 1..(pos[w] - 1) :
                    df[w][k].index \in committed[w] \cup FailedIndex(w)

\* the store rejected the insert of a record; the call has returned, the
\* record is reported failed, is not in the store, and another record of
\* the file was counted
PersistenceFailureAccountingWitness ==
    \E w \in Writers :
        /\ pc[w] = "returned"
        /\ result[w] >= 1
        /\ \E f \in failed[w] : f[2] = "execute"

\* a / 1000000 undone
MulMillion(v) == [mega |-> v.mega * Million + v.unit, unit |-> v.micro, micro |-> 0]

\* the raw volume of the frame row a stored row was inserted from
RawVolume(r) == issued[r.Id].row.Volume.num

\* C8: the stored Volume of every row is raw / 1,000,000 when the raw
\* volume is above 99,999,999 and the raw volume itself otherwise; raw
\* 500,000,000 is stored as 500.
OverflowLaw ==
    \A r \in store :
        /\ IF NumGt(RawVolume(r), Num(99999999))
           THEN MulMillion(r.Volume) = RawVolume(r)
           ELSE r.Volume = RawVolume(r)
        /\ RawVolume(r) = Num(500000000) => r.Volume = Num(500)

\* the store holds a row of raw volume 500,000,000 and one of raw volume
\* 99,999,999
OverflowLawWitness ==
    /\ \E r \in store : RawVolume(r) = Num(500000000) /\ r.Volume = Num(500)
    /\ \E r \in store : RawVolume(r) = Num(99999999) /\ r.Volume = Num(99999999)

\* the index labels of the rows of a file that have an empty cell in a
\* column that supplies a required field
MissingRows(f) ==
    LET cols == Standardize(StripBOM(f.cols)) IN
    {k \in DOMAIN f.rows :
        \E c \in Range(required_cols) : f.rows[k][ColIndex(cols, c)].kind = "nan"}

\* per catalog file: whether the required columns are there, its rows, and
\* those of them that lack a required field
FileFacts ==
    [p \in Catalog \cup FileCatalog |->
        LET f == ReadCsv(p)
            req == f.cols # <<>> /\ HasRequired(Standardize(StripBOM(f.cols)))
        IN [required |-> req,
            rows |-> DOMAIN f.rows,
            missing |-> IF req THEN MissingRows(f) ELSE {}]]

\* C9: a row with a required field missing is never taken up by the row
\* loop, never committed, never stored and never counted; the other rows
\* of the file are all taken up when the call returns normally.
DropLaw ==
    \A w \in Writers :
        (pc[w] \notin {"idle", "prepare"} /\ FileFacts[file_path[w]].required) =>
            LET facts == FileFacts[file_path[w]] IN
            /\ attempted[w] \cap facts.missing = {}
            /\ committed[w] \cap facts.missing = {}
            /\ \A r \in added[w] : issued[r.Id].row.index \notin facts.missing
            /\ insert_count[w] <= Cardinality(facts.rows \ facts.missing)
            /\ (pc[w] = "returned" /\ conn[w] = "closed") =>
                  attempted[w] = facts.rows \ facts.missing

\* a file with a row that lacks a required field has been processed: the
\* rows before and after the dropped one were taken up and committed
DropLawWitness ==
    \E w \in Writers :
        /\ pc[w] = "returned"
        /\ conn[w] = "closed"
        /\ \E k \in FileFacts[file_path[w]].missing :
              /\ \E a \in committed[w] : a < k
              /\ \E b \in committed[w] : b > k

\* the header has neither variant's symbol column
NoSymbolColumn(f) ==
    /\ f.cols # <<>>
    /\ Name("HisseKodu") \notin Range(StripBOM(f.cols))
    /\ Name("HGDG_HS_KODU") \notin Range(StripBOM(f.cols))

\* the header lacks one of the seven canonical column names
LacksCanonical(f) ==
    \E c \in Range(required_cols) : Name(c) \notin Range(StripBOM(f.cols))

\* the call of process_csv_file contributes nothing and raises nothing
ContributesNothing(w) ==
    /\ pc[w] \in {"prepare", "returned"}
    /\ conn[w] = "none"
    /\ attempted[w] = {}
    /\ added[w] = {}
    /\ result[w] = 0

\* C10 as claimed: a file whose header has neither 'HisseKodu' nor
\* 'HGDG_HS_KODU' contributes no record to the store or the counts and
\* raises no error.
UnrecognizedSchemaLaw ==
    \A w \in Writers :
        (pc[w] # "idle" /\ NoSymbolColumn(ReadCsv(file_path[w]))) => ContributesNothing(w)

\* C10 as amended: so does a file whose header has neither symbol column
\* and lacks one of the canonical names Symbol, Date, Open, High, Low,
\* Close, Volume.
UnrecognizedSchemaLawAmended ==
    \A w \in Writers :
        (pc[w] # "idle" /\ NoSymbolColumn(ReadCsv(file_path[w])) /\ LacksCanonical(ReadCsv(file_path[w])))
            => ContributesNothing(w)

\* the first file of the market was such a file; the run went on to the
\* next file, whose record is committed
UnrecognizedSchemaLawWitness ==
    /\ mpc = "in_call"
    /\ fi >= 2
    /\ NoSymbolColumn(ReadCsv(todo[1])) /\ LacksCanonical(ReadCsv(todo[1]))
    /\ total_files = fi - 1
    /\ total_records = 0
    /\ pc[W1] = "count"
    /\ store # {}

\* the file a stored row was inserted from, and the cell of that file's row
\* under the column the file's header calls col
SourceFile(r) == ReadCsv(issued[r.Id].path)
SourceCell(r, col) ==
    LET f == SourceFile(r) IN
    f.rows[issued[r.Id].row.index][ColIndex(StripBOM(f.cols), col)]
HasColumn(f, col) == Name(col) \in Range(StripBOM(f.cols))

\* the branch of lines 33 and 45 the file takes
RecognizedA(f) == f.cols # <<>> /\ HasColumn(f, "HisseKodu")
RecognizedB(f) == f.cols # <<>> /\ ~HasColumn(f, "HisseKodu") /\ HasColumn(f, "HGDG_HS_KODU")

\* C11: every stored row of a file recognized by the Variant B symbol
\* column 'HGDG_HS_KODU' has as Close the value of its row's
\* 'DuzeltilmisKapanis' cell, and not the 'KapanisFiyati' value where the
\* file has that column too and the two differ.
CloseSelectionB ==
    \A r \in store :
        RecognizedB(SourceFile(r)) =>
            /\ r.Close = Float(SourceCell(r, "DuzeltilmisKapanis"))
            /\ (/\ HasColumn(SourceFile(r), "KapanisFiyati")
                /\ SourceCell(r, "KapanisFiyati") # SourceCell(r, "DuzeltilmisKapanis"))
                  => r.Close # Float(SourceCell(r, "KapanisFiyati"))

\* a row of a Variant B file with both close columns is stored: raw close
\* 31, adjusted close 41
CloseSelectionBWitness ==
    \E r \in store :
        /\ RecognizedB(SourceFile(r))
        /\ SourceCell(r, "KapanisFiyati") = NumCell(31)
        /\ SourceCell(r, "DuzeltilmisKapanis") = NumCell(41)
        /\ r.Close = Num(41)

\* C12: every stored row of a file recognized by the Variant A symbol
\* column 'HisseKodu' has as Close the value of its row's adjusted-close
\* cell when the file has the column 'DuzeltilmisKapanis', and of its
\* raw-close cell 'KapanisFiyati' otherwise.
CloseSelectionA ==
    \A r \in store :
        RecognizedA(SourceFile(r)) =>
            r.Close = IF HasColumn(SourceFile(r), "DuzeltilmisKapanis")
                      THEN Float(SourceCell(r, "DuzeltilmisKapanis"))
                      ELSE Float(SourceCell(r, "KapanisFiyati"))

\* the store holds a row of a Variant A file with both close columns
\* (raw 11, adjusted 21) and a row of a Variant A file with the raw close only
CloseSelectionAWitness ==
    /\ \E r \in store :
          /\ RecognizedA(SourceFile(r))
          /\ HasColumn(SourceFile(r), "DuzeltilmisKapanis")
          /\ SourceCell(r, "KapanisFiyati") = NumCell(11)
          /\ r.Close = Num(21)
    /\ \E r \in store :
          /\ RecognizedA(SourceFile(r))
          /\ ~HasColumn(SourceFile(r), "DuzeltilmisKapanis")
          /\ r.Close = Float(SourceCell(r, "KapanisFiyati"))

\* the rows of a file, under the standardized header, whose date is a text
\* that does not parse
BadDateRows(f) ==
    LET cols == Standardize(StripBOM(f.cols)) IN
    {k \in DOMAIN f.rows :
        LET c == f.rows[k][ColIndex(cols, "Date")] IN
        c.kind = "text" /\ ~CanParseDate(c)}

\* per file of the wider catalog: the rows with a date that does not parse,
\* and those of them that have all required fields
DateFacts ==
    [p \in FileCatalog |->
        LET f == ReadCsv(p)
            req == f.cols # <<>> /\ HasRequired(Standardize(StripBOM(f.cols)))
        IN [bad |-> IF req THEN BadDateRows(f) ELSE {},
            badComplete |-> IF req THEN BadDateRows(f) \ MissingRows(f) ELSE {}]]

\* C13 as claimed: a file with a row whose date does not parse contributes
\* no row to the store and no count, and raises nothing.
DateParseWholeFileFailure ==
    \A w \in Writers :
        (pc[w] # "idle" /\ DateFacts[file_path[w]].bad # {}) => ContributesNothing(w)

\* C13 as amended: so does a file with a row that has all required fields
\* and a date that does not parse; none of its rows, those with valid dates
\* included, is taken up.
DateParseWholeFileFailureComplete ==
    \A w \in Writers :
        (pc[w] # "idle" /\ DateFacts[file_path[w]].badComplete # {}) => ContributesNothing(w)

\* the first file of the market had a complete row with a date that does
\* not parse and a row with a valid date; it was counted as a file with no
\* record, nothing of it is stored, and the run went on to the next file,
\* whose record is committed
DateParseWholeFileFailureWitness ==
    /\ mpc = "in_call"
    /\ fi = 2
    /\ DateFacts[todo[1]].badComplete # {}
    /\ DOMAIN ReadCsv(todo[1]).rows # DateFacts[todo[1]].bad
    /\ total_files = 1
    /\ total_records = 0
    /\ pc[W1] = "count"
    /\ store # {}
    /\ \A r \in store : issued[r.Id].path # todo[1]

\* the store was unreachable for the call: the connection was lost, or
\* could not be opened for a frame with rows
Unreachable(w) ==
    \/ conn[w] = "broken"
    \/ pc[w] \in {"except_outer", "returned"} /\ conn[w] = "none" /\ Len(df[w]) > 0

\* C14: once the store is unreachable for a file, no further row of the
\* file is taken up, process_csv_file returns (0) without raising, and the
\* run goes on to the next file and to the summary after every market.
StoreUnreachableBulkhead ==
    /\ [](\A w \in Writers :
            Unreachable(w) =>
               /\ pc[w] \in {"except_row", "except_outer", "returned"}
               /\ attempted[w] = {df[w][k].index : k \in 1..pos[w]}
               /\ pc[w] = "returned" => result[w] = 0)
    /\ Unreachable(W1) ~> (mpc = "done" /\ visited = markets)

\* the run has reached its summary; the connection was lost in the first
\* file at the commit of its first row: that row is stored, its second row
\* was never inserted, the file counted 0 records; the next file was imported
StoreUnreachableBulkheadWitness ==
    /\ mpc = "done"
    /\ visited = markets
    /\ faults >= 1
    /\ processed["BIST"] = <<"b.csv", "canon.csv">>
    /\ total_files = 2
    /\ total_records = 1
    /\ \E r \in store : issued[r.Id].path = "b.csv" /\ issued[r.Id].row.index = 1
    /\ \A r \in store : issued[r.Id].path = "b.csv" => issued[r.Id].row.index # 2
    /\ \E r \in store : issued[r.Id].path = "canon.csv"

\* C15: every run of main that is started reaches its summary, whatever
\* directories are missing, files are unrecognized, dates do not parse,
\* rows fail and store faults occur; the markets are taken up in the order
\* of the list, and all of them have been by the summary.
NothingIsFatal ==
    /\ [](visited = SubSeq(markets, 1, Len(visited)))
    /\ (mpc = "start") ~> (mpc = "done" /\ visited = markets)

\* two runs have reached their summary with a market directory missing, a
\* file with a date that does not parse, a file with a failing row, and a
\* store fault
NothingIsFatalWitness ==
    /\ mpc = "done"
    /\ Len(runEnd) = 2
    /\ visited = markets
    /\ faults >= 1
    /\ ~fs["NASDAQ"].exists
    /\ processed["BIST"] = <<"baddate.csv", "canon.csv">>
    /\ total_files = 2

\* the first n elements of a sequence (all of it when it is shorter)
FirstN(q, n) == SubSeq(q, 1, Min(n, Len(q)))
IsPrefix(p, q) == Len(p) <= Len(q) /\ p = SubSeq(q, 1, Len(p))

\* C16 as claimed: at the summary every market had none of its files, its
\* first fileLimit files or all of its files processed, and each of the
\* three modes is available: when every directory holds files, and BIST
\* more than fileLimit of them, some market had all of its files processed.
InclusionPolicy ==
    mpc = "done" =>
        /\ \A m \in Range(markets) :
              processed[m] \in {<<>>, FirstN(fs[m].files, FileLimit), fs[m].files}
        /\ (/\ \A m \in Range(markets) : fs[m].exists /\ fs[m].files # <<>>
            /\ Len(fs["BIST"].files) > FileLimit)
              => \E m \in Range(markets) : processed[m] = fs[m].files

\* C16 as amended: no file of a market other than BIST is ever processed;
\* of BIST the files processed are, in the order of the enumeration, its
\* first 3 files (all of them when there are no more than 3), and exactly
\* these have been processed at the summary.
InclusionPolicyFixed ==
    /\ \A m \in Range(markets) \ {"BIST"} : processed[m] = <<>>
    /\ IsPrefix(processed["BIST"], FirstN(fs["BIST"].files, 3))
    /\ Len(processed["BIST"]) <= 3
    /\ mpc = "done" => processed["BIST"] = FirstN(fs["BIST"].files, 3)
    /\ \A w \in Writers :
          pc[w] # "idle" => file_path[w] = processed["BIST"][Len(processed["BIST"])]

\* a run has reached its summary: BIST holds four files, of which the
\* first three were processed; NASDAQ holds a file, which was not
InclusionPolicyWitness ==
    /\ mpc = "done"
    /\ Len(fs["BIST"].files) = 4
    /\ processed["BIST"] = SubSeq(fs["BIST"].files, 1, 3)
    /\ total_files = 3
    /\ fs["NASDAQ"].files # <<>>
    /\ processed["NASDAQ"] = <<>>

\* C17: no file of a market whose directory is missing is processed; the
\* step that finds the directory missing changes neither counter nor the
\* store and goes on to the next market of the list; the summary is reached
\* only after every market was taken up.
MissingDirectoryNonFatal ==
    /\ [](/\ \A m \in Range(markets) : ~fs[m].exists => processed[m] = <<>>
          /\ mpc = "done" => visited = markets
          /\ (mpc = "done" /\ ~fs["BIST"].exists) => total_files = 0 /\ total_records = 0)
    /\ [][(mpc = "markets" /\ mi <= Len(markets) /\ ~fs[markets[mi]].exists) =>
             /\ total_files' = total_files
             /\ total_records' = total_records
             /\ store' = store
             /\ pc' = pc
             /\ mpc' = "markets"
             /\ mi' = mi + 1]_vars

\* the directory of the first market is missing; the run went on, imported
\* files of BIST and reached its summary after all four markets
MissingDirectoryNonFatalWitness ==
    /\ ~fs["Crypto"].exists
    /\ fs["BIST"].exists
    /\ mpc = "done"
    /\ visited = markets
    /\ total_files >= 2
    /\ total_records >= 2
    /\ store # {}

\* a file is clean: it has the required columns, and its rows that have all
\* required fields have numbers for prices and volume, dates that parse,
\* and natural keys that differ from each other
CleanFile(f) ==
    /\ f.cols # <<>>
    /\ HasRequired(Standardize(StripBOM(f.cols)))
    /\ LET frame == DropNa(SelectRequired(Standardize(StripBOM(f.cols)), f.rows)) IN
       /\ \A k \in DOMAIN frame :
             /\ \A c \in {"Open", "High", "Low", "Close", "Volume"} :
                   CanFloat(frame[k].cells[c])
             /\ CanParseDate(frame[k].cells["Date"])
       /\ \A j, k \in DOMAIN frame :
             (/\ frame[j].cells["Symbol"] = frame[k].cells["Symbol"]
              /\ ToDatetime(frame[j].cells["Date"]) = ToDatetime(frame[k].cells["Date"]))
                => j = k

\* per file of the wider catalog: whether it is clean
CleanFacts == [p \in FileCatalog |-> CleanFile(ReadCsv(p))]

\* the store held no row with a natural key of the frame when the call began:
\* every stored row with such a key was added by the call
FreshKeys(w) ==
    \A r \in store :
        (\E k \in DOMAIN df[w] : HasKeyOf(r, df[w][k])) => r \in added[w]

\* C18: a call over a clean file of n rows, k of them lacking a required
\* field, into a store that held none of its keys and with no store fault,
\* ends with n - k rows attempted, n - k counted and really inserted, and
\* no row failed; for the 4-row file with one close missing: 3, 3, 0.
StatisticsCleanFile ==
    \A w \in Writers :
        (/\ pc[w] = "returned" /\ conn[w] = "closed" /\ faults = 0
         /\ CleanFacts[file_path[w]] /\ FreshKeys(w)) =>
            LET n == Cardinality(FileFacts[file_path[w]].rows)
                k == Cardinality(FileFacts[file_path[w]].missing)
            IN /\ Cardinality(attempted[w]) = n - k
               /\ result[w] = n - k
               /\ Cardinality(added[w]) = n - k
               /\ failed[w] = {}
               /\ file_path[w] = "araw.csv" =>
                     /\ Cardinality(attempted[w]) = 3
                     /\ result[w] = 3
                     /\ failed[w] = {}

\* the 4-row file whose row 3 has no close was imported into a store that
\* held none of its keys, without a store fault: 3 attempted, 3 inserted,
\* none failed
StatisticsCleanFileWitness ==
    \E w \in Writers :
        /\ pc[w] = "returned" /\ conn[w] = "closed" /\ faults = 0
        /\ file_path[w] = "araw.csv"
        /\ FileFacts[file_path[w]].rows = 1..4
        /\ FileFacts[file_path[w]].missing = {3}
        /\ FreshKeys(w)
        /\ attempted[w] = {1, 2, 4}
        /\ result[w] = 3
        /\ Cardinality(added[w]) = 3
        /\ failed[w] = {}

\* the natural key of a stored row, and of the rows of a frame
NaturalKey(r) == <<r.Symbol, r.Timeframe, r.Timestamp>>
FrameKeys(w) ==
    {<<df[w][k].Symbol.text, df[w][k].Timeframe, df[w][k].Timestamp>> : k \in DOMAIN df[w]}

\* both calls have returned, and no store fault has occurred
BothReturned == \A w \in Writers : pc[w] = "returned"

\* C19: two concurrent imports never leave two rows of one natural key in
\* the store; when both have returned (no store fault), every key both
\* files carry has exactly one stored row, and each call has taken up all
\* its rows, failed none and returned normally; both calls do return.
RacingWritersConverge ==
    /\ [](\A a, b \in store : NaturalKey(a) = NaturalKey(b) => a = b)
    /\ []((BothReturned /\ faults = 0) =>
            /\ \A key \in FrameKeys(1) \cap FrameKeys(2) :
                  Cardinality({r \in store : NaturalKey(r) = key}) = 1
            /\ \A w \in Writers :
                  /\ conn[w] = "closed"
                  /\ attempted[w] = FrameIndex(w)
                  /\ committed[w] = FrameIndex(w)
                  /\ failed[w] = {})
    /\ <>BothReturned

\* the two imports worked on different files that carry a record of the
\* same natural key; the second writer's record of that key is the stored
\* one, the first writer's insert of it was a no-op, and both calls have
\* returned normally
RacingWritersConvergeWitness ==
    /\ BothReturned
    /\ faults = 0
    /\ file_path[1] # file_path[2]
    /\ FrameKeys(1) \cap FrameKeys(2) # {}
    /\ \A w \in Writers : conn[w] = "closed" /\ failed[w] = {}
    /\ \E r \in added[2] : NaturalKey(r) \in FrameKeys(1)
    /\ \A r \in added[1] : NaturalKey(r) \notin FrameKeys(2)

\* a stored row without its generated Id
Strip(r) == [x \in DOMAIN r \ {"Id"} |-> r[x]]

RECURSIVE ImportRows(_, _, _)
\* lines 83-100 without store faults: the store after the rows k.. of a
\* frame have been inserted one by one
ImportRows(st, frame, k) ==
    IF k > Len(frame) THEN st
    ELSE IF CanFloat(frame[k].Volume) /\ ParamsCoerce(frame[k])
    THEN ImportRows(
            st \cup InsertOnConflictDoNothing(
                        st, InsertParams(frame[k], ScaleVolume(Float(frame[k].Volume)))),
            frame, k + 1)
    ELSE ImportRows(st, frame, k + 1)

RECURSIVE ImportFiles(_, _, _)
\* the store after the files k.. of a list have been imported one after
\* the other
ImportFiles(st, paths, k) ==
    IF k > Len(paths) THEN st
    ELSE ImportFiles(
            ImportRows(st, PrepareFile(ReadCsv(paths[k]), "BIST", Cardinality(st) + 1).df, 1),
            paths, k + 1)

\* per pair of files: the rows, without Ids, one import after the other
\* leaves in an empty store, in each of the two orders
Sequential ==
    [p \in ParCatalog \X ParCatalog |->
        [inOrder |-> {Strip(r) : r \in ImportFiles({}, <<p[1], p[2]>>, 1)},
         reversed |-> {Strip(r) : r \in ImportFiles({}, <<p[2], p[1]>>, 1)}]]

\* the record every row of a frame is inserted as, without its Id
Candidates(w) ==
    {Strip(InsertParams(df[w][k], ScaleVolume(Float(df[w][k].Volume)))) :
        k \in {j \in DOMAIN df[w] : CanFloat(df[w][j].Volume) /\ ParamsCoerce(df[w][j])}}

\* C20 as claimed: when two files have been imported at once (no store
\* fault), the rows of the store, their generated Ids apart, are those that
\* importing the one file after the other leaves, in either order: the
\* final state is the same for every ordering of the commits.
OrderInvariance ==
    (BothReturned /\ faults = 0) =>
        LET seq == Sequential[<<file_path[1], file_path[2]>>] IN
        /\ {Strip(r) : r \in store} = seq.inOrder
        /\ {Strip(r) : r \in store} = seq.reversed

\* C20 as amended: the natural keys of the final store are the keys of the
\* records of the two files, one row each, whatever the ordering of the
\* commits; a key that one record carries has that record's values, and a
\* key that records of both files carry has the values of one of them.
OrderInvarianceOfKeys ==
    (BothReturned /\ faults = 0) =>
        /\ {NaturalKey(r) : r \in store} = FrameKeys(1) \cup FrameKeys(2)
        /\ \A a, b \in store : NaturalKey(a) = NaturalKey(b) => a = b
        /\ \A r \in store : Strip(r) \in Candidates(1) \cup Candidates(2)
        /\ \A r \in store :
              Cardinality({c \in Candidates(1) \cup Candidates(2) :
                              NaturalKey(c) = NaturalKey(r)}) = 1
                 => Strip(r) \in Sequential[<<file_path[1], file_path[2]>>].inOrder
                                  \cap Sequential[<<file_path[1], file_path[2]>>].reversed

\* two files with a record of the same natural key and other values were
\* imported at once; the stored row of that key has the values of the
\* second writer's file, that of a key only the first file carries has its
\* values
OrderInvarianceWitness ==
    /\ BothReturned
    /\ faults = 0
    /\ file_path[1] # file_path[2]
    /\ \E r \in store :
          /\ NaturalKey(r) \in FrameKeys(1) \cap FrameKeys(2)
          /\ Strip(r) \in Candidates(2) \ Candidates(1)
    /\ \E r \in store :
          /\ NaturalKey(r) \in FrameKeys(1) \ FrameKeys(2)
          /\ Strip(r) \in Candidates(1)

\* C21: every Volume value handed to the INSERT statement, and so every
\* stored Volume, is at most 99,999,999, whatever the raw volume.
VolumeFitsStorage ==
    /\ \A w \in Writers :
          pc[w] \in {"execute", "commit", "count"} =>
             ~NumGt(volume[w], Num(VolumeCeiling))
    /\ \A r \in store : ~NumGt(r.Volume, Num(VolumeCeiling))

\* the counter and the completed commits agree: between two rows exactly,
\* and with the one record just committed outstanding at line 100
CounterAgrees(w) ==
    /\ pc[w] \in {"loop", "scale", "execute", "commit", "except_row", "except_outer",
                  "close"} =>
          insert_count[w] = Cardinality(committed[w])
    /\ pc[w] = "count" =>
          /\ Row(w).index \in committed[w]
          /\ insert_count[w] + 1 = Cardinality(committed[w])

\* C22: insert_count is incremented for a record only after the commit of
\* that record has returned; through the row loop it equals the number of
\* the file's records whose commit has completed; a record that was rolled
\* back never increments it.
CounterOrdering ==
    /\ [](\A w \in Writers : CounterAgrees(w))
    /\ [][\A w \in Writers :
             /\ insert_count'[w] > insert_count[w] =>
                   /\ pc[w] = "count"
                   /\ Row(w).index \in committed[w]
                   /\ Row(w).index \notin FailedIndex(w)
                   /\ insert_count'[w] = insert_count[w] + 1
             /\ pc[w] = "except_row" => insert_count'[w] = insert_count[w]]_vars

\* in the row loop, after one record was rolled back and another was
\* committed and counted
CounterOrderingWitness ==
    \E w \in Writers :
        /\ pc[w] = "loop"
        /\ \E f \in failed[w] : f[2] \in {"float", "execute"}
        /\ committed[w] # {}
        /\ insert_count[w] = Cardinality(committed[w])

\* C23: the Timestamp of every stored row is a calendar date without a time
\* of day, so of the source rows of one symbol on one calendar date at most
\* one is stored.
TimestampIsDateOnly ==
    /\ \A r \in store : r.Timestamp.time = 0
    /\ \A r1, r2 \in store :
          (r1.Symbol = r2.Symbol /\ r1.Timeframe = r2.Timeframe
             /\ r1.Timestamp.day = r2.Timestamp.day) => r1 = r2

\* a row of the frame (all required fields present) one of whose Open,
\* High, Low, Close, Volume values is not a number
ValueFault(row) ==
    \E c \in {row.Open, row.High, row.Low, row.Close, row.Volume} : c.kind = "text"

\* C24: with no store fault, a row whose Open, High, Low, Close or Volume
\* cannot be coerced to a number is attempted, reported failed and not
\* stored, the connection stays usable, and every other row of the file is
\* attempted, committed and stored.
ValueFaultsAreRowLevel ==
    \A w \in Writers :
        /\ (pc[w] = "except_row" /\ exc[w] = "float") => conn[w] = "open"
        /\ (pc[w] = "returned" /\ faults = 0 /\ df[w] # <<>>) =>
              \A k \in DOMAIN df[w] :
                 /\ df[w][k].index \in attempted[w]
                 /\ IF ValueFault(df[w][k])
                    THEN /\ <<df[w][k].index, "float">> \in failed[w]
                         /\ df[w][k].index \notin committed[w]
                         /\ \A r \in store : r.Id # df[w][k].Id
                    ELSE /\ df[w][k].index \in committed[w]
                         /\ InsertParams(df[w][k], ScaleVolume(Float(df[w][k].Volume)))
                               \in store

\* the file whose rows 1 and 3 hold a text for Volume and for Close has
\* been processed: rows 2 and 4 are stored, rows 1 and 3 are not
ValueFaultsAreRowLevelWitness ==
    \E w \in Writers :
        /\ pc[w] = "returned"
        /\ faults = 0
        /\ file_path[w] = "badvalue.csv"
        /\ {f[1] : f \in failed[w]} = {1, 3}
        /\ committed[w] = {2, 4}
        /\ Cardinality(store) = 2

\* the first header name of the file starts with a byte-order mark
BomLed(f) == f.cols # <<>> /\ Head(f.cols[1]) = BOM

\* the file with the byte-order mark taken off its first header name
WithoutBom(f) ==
    [cols |-> [k \in DOMAIN f.cols |->
                  IF k = 1 THEN SelectSeq(f.cols[1], LAMBDA t : t # BOM) ELSE f.cols[k]],
     rows |-> f.rows]

\* the rows an import of the frame stores in an empty store with no fault
RowsOf(frame) ==
    {InsertParams(frame[k], ScaleVolume(Float(frame[k].Volume))) :
        k \in {j \in DOMAIN frame : CanFloat(frame[j].Volume) /\ ParamsCoerce(frame[j])}}

\* C25: a file whose first header name starts with a byte-order mark is
\* prepared to the frame of the same file without the mark, and its import
\* stores the rows that file's import stores; the strip changes no header
\* name but the first, and no header without the mark.
BomHygiene ==
    /\ \A p \in CallCatalog :
          LET f == ReadCsv(p) IN
          f.cols # <<>> =>
             /\ Tail(StripBOM(f.cols)) = Tail(f.cols)
             /\ ~BomLed(f) => StripBOM(f.cols) = f.cols
    /\ WithoutBom(ReadCsv("bom.csv")) = ReadCsv("b.csv")
    /\ \A w \in Writers :
          (pc[w] \notin {"idle", "prepare"} /\ BomLed(ReadCsv(file_path[w]))) =>
             LET twin == PrepareFile(WithoutBom(ReadCsv(file_path[w])), market_name[w], 1) IN
             /\ twin.status = "ok"
             /\ df[w] = twin.df
             /\ (pc[w] = "returned" /\ faults = 0) =>
                   /\ store = RowsOf(twin.df)
                   /\ result[w] = Len(twin.df)

\* the file with the mark has been imported: its two rows are stored
BomHygieneWitness ==
    \E w \in Writers :
        /\ pc[w] = "returned"
        /\ faults = 0
        /\ BomLed(ReadCsv(file_path[w]))
        /\ Cardinality(store) = 2
        /\ result[w] = 2

\* C26: every row a call process_csv_file(file, market) inserts or stores
\* has Timeframe 'DAILY' and the upper-cased market label as AssetClass,
\* for every file of the call catalog (both variants, canonical header).
RecordTagging ==
    \A r \in store \cup txn[W1] :
        /\ r.Timeframe = "DAILY"
        /\ market_name[W1] = "Crypto" => r.AssetClass = "CRYPTO"
        /\ market_name[W1] = "BIST" => r.AssetClass = "BIST"
        /\ market_name[W1] = "NASDAQ" => r.AssetClass = "NASDAQ"
        /\ market_name[W1] = "NYSE" => r.AssetClass = "NYSE"
        /\ r.AssetClass \in {"CRYPTO", "BIST", "NASDAQ", "NYSE"}

\* a call with the label 'Crypto' has returned and left rows tagged CRYPTO,
\* from a Variant A file
RecordTaggingWitness ==
    /\ pc[W1] = "returned"
    /\ market_name[W1] = "Crypto"
    /\ file_path[W1] = "badvalue.csv"
    /\ \E r \in store : r.AssetClass = "CRYPTO" /\ r.Timeframe = "DAILY"

\* C27: on every exit path the value process_csv_file returns is the
\* number of records of the file whose commit completed, also when the
\* connection failed after some rows were committed.
ReportedTotalMatchesCommits ==
    \A w \in Writers :
        pc[w] = "returned" => result[w] = Cardinality(committed[w])

\* C28: whenever process_csv_file has returned, the connection it opened
\* (if it opened one) has been closed, so at most one connection is held
\* unclosed at any point of a sequential run.
ConnectionRelease ==
    /\ \A w \in Writers : pc[w] = "returned" => conn[w] \in {"none", "closed"}
    /\ Cardinality({w \in Writers : conn[w] \in {"open", "aborted", "broken"}}) <= 1

\* the file is read, and is skipped at line 61 (a required column is
\* missing) or at line 70 (a date does not parse)
IsSkipped(path, market) == PrepareFile(ReadCsv(path), market, 1).status = "skip"

\* C29: the call for a file that is skipped for missing required columns
\* or for a date that does not parse goes from its start straight to its
\* return with the value 0: no connection is opened, no insert, commit or
\* rollback is issued, and the store is unchanged.
SkippedFilesTouchNothing ==
    [][\A w \in Writers :
          (pc[w] = "prepare" /\ pc'[w] # "prepare"
             /\ IsSkipped(file_path[w], market_name[w])) =>
             /\ pc'[w] = "returned"
             /\ result'[w] = 0
             /\ conn[w] = "none" /\ conn'[w] = "none"
             /\ txn'[w] = {} /\ stmts'[w] = {}
             /\ attempted'[w] = {} /\ committed'[w] = {} /\ failed'[w] = {}
             /\ store' = store
             /\ faults' = faults]_vars

\* the call for a skipped file has returned 0 with no connection, while the
\* store holds the rows of the file imported before it
SkippedFilesTouchNothingWitness ==
    \E w \in Writers :
        /\ pc[w] = "returned"
        /\ IsSkipped(file_path[w], market_name[w])
        /\ file_path[w] = "baddate.csv"
        /\ result[w] = 0
        /\ conn[w] = "none"
        /\ attempted[w] = {}
        /\ store # {}

\* C30: every step of the import leaves every stored row in the store with
\* the same field values: no step deletes or updates a row, whether it is a
\* new insert, a conflict, a failed row or a skipped file.
StoreOnlyGrows ==
    [][/\ store \subseteq store'
       /\ \A r \in store : \A r2 \in store' : Key(r2) = Key(r) => r2 = r]_vars

\* a file has been imported after another: one of its rows met a stored
\* row of the same key, another failed at the store, and the rows stored
\* before are there
StoreOnlyGrowsWitness ==
    \E w \in Writers :
        /\ pc[w] = "returned"
        /\ Cardinality(added[w]) < Cardinality(committed[w])
        /\ \E f \in failed[w] : f[2] = "execute"
        /\ store # {}

====
